---- MODULE Spec2Model ----
(***************************************************************************)
(* Model of comb.py: the inventory cleaner (clean_inventory_data) and the  *)
(* part of the Streamlit shell (main) that calls it.                       *)
(*                                                                         *)
(* A character is its Unicode code point, a Python str is a sequence of    *)
(* code points.  A cell of a DataFrame is a record: [t |-> "str", s |-> _] *)
(* for a str, [t |-> "nan"] for a missing value (NaN), [t |-> "int", n]    *)
(* for an integer.                                                         *)
(***************************************************************************)
EXTENDS Integers, Sequences, FiniteSets, TLC

\* ------------------------------------------------------------------------
\* Bounds of the model
\* ------------------------------------------------------------------------
MaxLen == 4

MaxRows == 3

MaxCount == 3

\* Code points the normalizer is exercised on:
\* SOH, TAB, space, '1', 'O', 'a', 'n', 'o'
NormAlphabet == {1, 9, 32, 49, 79, 97, 110, 111}

\* ------------------------------------------------------------------------
\* Character classes of the regular expressions and of str.strip
\* ------------------------------------------------------------------------
\* str.isspace / regex \s on a str pattern (code points below 256)
IsSpace(c) == c \in {9, 10, 11, 12, 13, 28, 29, 30, 31, 32, 133, 160}

\* regex class [\x00-\x1f\x7f-\x9f]
IsControl(c) == c \in (0..31) \cup (127..159)

\* regex \d (ASCII digits)
IsDigit(c) == c \in 48..57

\* regex class [oO]
IsLetterO(c) == c \in {111, 79}

NanText == <<110, 97, 110>>

StrCell(s) == [t |-> "str", s |-> s]
NanCell == [t |-> "nan"]
IntCell(n) == [t |-> "int", n |-> n]

\* ------------------------------------------------------------------------
\* Series.astype(str)
\* ------------------------------------------------------------------------
RECURSIVE Digits(_)
Digits(n) == IF n < 10 THEN <<48 + n>> ELSE Digits(n \div 10) \o <<48 + (n % 10)>>

astype_str(v) ==
    CASE v.t = "str" -> v.s
      [] v.t = "nan" -> NanText
      [] v.t = "int" -> Digits(v.n)

\* Series.replace('nan', ''): a value equal to 'nan' becomes ''
replace_nan(s) == IF s = NanText THEN <<>> ELSE s

\* ------------------------------------------------------------------------
\* .str.strip()
\* ------------------------------------------------------------------------
RECURSIVE lstrip(_)
lstrip(s) == IF s # <<>> /\ IsSpace(Head(s)) THEN lstrip(Tail(s)) ELSE s

RECURSIVE rstrip(_)
rstrip(s) ==
    IF s # <<>> /\ IsSpace(s[Len(s)]) THEN rstrip(SubSeq(s, 1, Len(s) - 1)) ELSE s

str_strip(s) == rstrip(lstrip(s))

\* .str.replace(r'\s+', ' ', regex=True): every maximal run of whitespace
\* becomes one space
RECURSIVE collapse_whitespace(_)
collapse_whitespace(s) ==
    IF s = <<>> THEN <<>>
    ELSE IF IsSpace(Head(s))
         THEN <<32>> \o collapse_whitespace(lstrip(s))
         ELSE <<Head(s)>> \o collapse_whitespace(Tail(s))

\* .str.replace(r'[\x00-\x1f\x7f-\x9f]', '', regex=True)
strip_control(s) == SelectSeq(s, LAMBDA c : ~IsControl(c))

\* ------------------------------------------------------------------------
\* Name column, lines 37-44
\* ------------------------------------------------------------------------
clean_name(v) ==
    strip_control(collapse_whitespace(str_strip(replace_nan(astype_str(v)))))

\* ------------------------------------------------------------------------
\* Reference column, lines 52-67
\* ------------------------------------------------------------------------
\* lines 52-58: the reference before the o -> 0 correction
clean_ref_base(v) == strip_control(str_strip(replace_nan(astype_str(v))))

\* .str.contains(r'\d')
mask_has_digits(s) == \E i \in 1..Len(s) : IsDigit(s[i])

\* sub_between_digits with the look-ahead (?=\d) forgotten
sub_without_lookahead(s) ==
    [i \in 1..Len(s) |->
        IF IsLetterO(s[i]) /\ i > 1 /\ IsDigit(s[i - 1]) THEN 48 ELSE s[i]]

\* .str.replace(r'(?<=\d)[oO](?=\d)', '0'): the look-arounds read the
\* subject string, so all matches are replaced at once
sub_between_digits(s) ==
    [i \in 1..Len(s) |->
        IF /\ IsLetterO(s[i])
           /\ i > 1 /\ IsDigit(s[i - 1])
           /\ i < Len(s) /\ IsDigit(s[i + 1])
        THEN 48 ELSE s[i]]

\* .str.replace(r'^[oO](?=\d)', '0')
sub_leading(s) ==
    [i \in 1..Len(s) |->
        IF i = 1 /\ IsLetterO(s[i]) /\ Len(s) > 1 /\ IsDigit(s[2])
        THEN 48 ELSE s[i]]

\* '$' matches at the end of the string and before a final newline
AtDollar(s, i) == i = Len(s) \/ (i = Len(s) - 1 /\ s[Len(s)] = 10)

\* .str.replace(r'(?<=\d)[oO]$', '0')
sub_trailing(s) ==
    [i \in 1..Len(s) |->
        IF IsLetterO(s[i]) /\ i > 1 /\ IsDigit(s[i - 1]) /\ AtDollar(s, i)
        THEN 48 ELSE s[i]]

\* lines 61-67
fix_o(s) ==
    IF mask_has_digits(s)
    THEN sub_trailing(sub_leading(sub_between_digits(s)))
    ELSE s

clean_ref(v) == fix_o(clean_ref_base(v))

\* ------------------------------------------------------------------------
\* DataFrames: columns (ordered labels), index (row labels), data (one
\* function from column label to cell per row)
\* ------------------------------------------------------------------------
Frame(columns, index, data) == [columns |-> columns, index |-> index, data |-> data]

Range(s) == {s[i] : i \in 1..Len(s)}

nrows(frame) == Len(frame.index)

\* positions of a sequence of booleans that are TRUE, in increasing order
RECURSIVE PositionsFrom(_, _)
PositionsFrom(mask, i) ==
    IF i > Len(mask) THEN <<>>
    ELSE (IF mask[i] THEN <<i>> ELSE <<>>) \o PositionsFrom(mask, i + 1)

\* PositionsFrom walked from the last row to the first
RECURSIVE PositionsReversed(_, _)
PositionsReversed(mask, i) ==
    IF i > Len(mask) THEN <<>>
    ELSE PositionsReversed(mask, i + 1) \o (IF mask[i] THEN <<i>> ELSE <<>>)

\* boolean_select that gives the rows last to first
select_reversed(frame, mask) ==
    LET pos == PositionsReversed(mask, 1)
    IN  Frame(frame.columns,
              [k \in 1..Len(pos) |-> frame.index[pos[k]]],
              [k \in 1..Len(pos) |-> frame.data[pos[k]]])

\* frame[mask]: the rows whose mask is True, index labels kept
boolean_select(frame, mask) ==
    LET pos == PositionsFrom(mask, 1)
    IN  Frame(frame.columns,
              [k \in 1..Len(pos) |-> frame.index[pos[k]]],
              [k \in 1..Len(pos) |-> frame.data[pos[k]]])

\* frame.drop(col, axis=1)
drop_column(frame, col) ==
    Frame(SelectSeq(frame.columns, LAMBDA c : c # col),
          frame.index,
          [k \in 1..nrows(frame) |->
              [c \in (DOMAIN frame.data[k]) \ {col} |-> frame.data[k][c]]])

\* frame[col] = values: an existing column is overwritten in place, a new one
\* is appended
assign_column(frame, col, values) ==
    Frame(IF col \in Range(frame.columns) THEN frame.columns
                                          ELSE Append(frame.columns, col),
          frame.index,
          [k \in 1..nrows(frame) |->
              [c \in (DOMAIN frame.data[k]) \cup {col} |->
                  IF c = col THEN values[k] ELSE frame.data[k][c]]])

\* ------------------------------------------------------------------------
\* clean_inventory_data, lines 17-107
\* ------------------------------------------------------------------------
TempKey == "_temp_key"

\* missing_column with the check of the reference column forgotten
missing_name_only(df, product_name_col, product_ref_col) ==
    IF product_name_col \notin Range(df.columns) THEN <<product_name_col>> ELSE <<>>

\* lines 24-27: the first of the two columns that is missing, if any
missing_column(df, product_name_col, product_ref_col) ==
    IF product_name_col \notin Range(df.columns) THEN <<product_name_col>>
    ELSE IF product_ref_col \notin Range(df.columns) THEN <<product_ref_col>>
    ELSE <<>>

\* lines 37-44 on the whole column
clean_names(frame, col) ==
    assign_column(frame, col,
        [k \in 1..nrows(frame) |-> StrCell(clean_name(frame.data[k][col]))])

\* lines 52-67 on the whole column
clean_refs(frame, col) ==
    assign_column(frame, col,
        [k \in 1..nrows(frame) |-> StrCell(clean_ref(frame.data[k][col]))])

\* lines 46 and 69: (original.astype(str) != cleaned).sum()
count_changed(original, cleaned_frame, col) ==
    Cardinality({k \in 1..nrows(cleaned_frame) :
        astype_str(original.data[k][col]) # cleaned_frame.data[k][col].s})

\* lines 72-73: name + '|' + ref
temp_key(frame, product_name_col, product_ref_col) ==
    [k \in 1..nrows(frame) |->
        StrCell(frame.data[k][product_name_col].s \o <<124>>
                    \o frame.data[k][product_ref_col].s)]

\* line 75: Series.duplicated(keep=False)
duplicated_keep_false(keys) ==
    [k \in 1..Len(keys) |-> \E j \in 1..Len(keys) : j # k /\ keys[j] = keys[k]]

\* unique_part with the negation of the mask forgotten
unique_part_unnegated(keyed, duplicate_mask) ==
    drop_column(boolean_select(keyed, duplicate_mask), "_temp_key")

\* line 78
unique_part(keyed, duplicate_mask) ==
    drop_column(
        boolean_select(keyed, [k \in 1..Len(duplicate_mask) |-> ~duplicate_mask[k]]),
        TempKey)

\* line 79
duplicate_part(keyed, duplicate_mask) ==
    drop_column(boolean_select(keyed, duplicate_mask), TempKey)

\* lines 88-91: isin(['', 'nan']) | isna() counted over one column
count_empty(frame, col) ==
    Cardinality({k \in 1..nrows(frame) :
        \/ frame.data[k][col].t = "nan"
        \/ /\ frame.data[k][col].t = "str"
           /\ frame.data[k][col].s \in {<<>>, NanText}})

\* line 99: groupby([name, ref]).size(), a function from group key to size
group_sizes(frame, product_name_col, product_ref_col) ==
    LET key(k) == <<frame.data[k][product_name_col].s,
                    frame.data[k][product_ref_col].s>>
        keys == {key(k) : k \in 1..nrows(frame)}
    IN  [g \in keys |-> Cardinality({k \in 1..nrows(frame) : key(k) = g})]

\* line 100: number of groups reported
TopN == 5

\* sorted_heads with ascending=True
RECURSIVE sorted_heads_ascending(_, _, _)
sorted_heads_ascending(sizes, left, n) ==
    IF n = 0 \/ left = {} THEN {<<>>}
    ELSE LET smallest == {g \in left : \A h \in left : sizes[g] <= sizes[h]}
         IN  UNION {{<<g>> \o rest :
                        rest \in sorted_heads_ascending(sizes, left \ {g}, n - 1)}
                       : g \in smallest}

\* line 100: sort_values(ascending=False).head(5).  The sort is not stable,
\* so groups of equal size come in any order: the set of possible heads.
RECURSIVE sorted_heads(_, _, _)
sorted_heads(sizes, left, n) ==
    IF n = 0 \/ left = {} THEN {<<>>}
    ELSE LET largest == {g \in left : \A h \in left : sizes[h] <= sizes[g]}
         IN  UNION {{<<g>> \o rest : rest \in sorted_heads(sizes, left \ {g}, n - 1)}
                       : g \in largest}

\* top_duplicates sorted with ascending=True
top_duplicates_ascending(sizes) == sorted_heads_ascending(sizes, DOMAIN sizes, TopN)

top_duplicates(sizes) == sorted_heads(sizes, DOMAIN sizes, TopN)

\* lines 102-105
duplicate_warnings(sizes, top) ==
    <<[w |-> "groups", n |-> Cardinality(DOMAIN sizes)], [w |-> "top5"]>>
    \o [k \in 1..Len(top) |->
           [w |-> "group", name |-> top[k][1], ref |-> top[k][2],
            count |-> sizes[top[k]]]]

CountWarning(kind_, n) == IF n > 0 THEN <<[w |-> kind_, n |-> n]>> ELSE <<>>

\* The possible outcomes of clean_inventory_data(df, name, ref): an exception
\* or the triple (unique_df, duplicate_df, warnings).  The argument df is
\* copied at line 30 and never written.
clean_inventory_data(df, product_name_col, product_ref_col) ==
    LET missing == missing_column(df, product_name_col, product_ref_col)
    IN
    IF missing # <<>>
    THEN {[status |-> "ValueError", column |-> missing[1]]}
    \* lines 34 and 49 index the two columns of the copy
    ELSE IF product_name_col \notin Range(df.columns)
    THEN {[status |-> "KeyError", column |-> product_name_col]}
    ELSE IF product_ref_col \notin Range(df.columns)
    THEN {[status |-> "KeyError", column |-> product_ref_col]}
    ELSE
    LET named == clean_names(df, product_name_col)
        names_changed == count_changed(df, named, product_name_col)
        original_refs == named
        cleaned_df == clean_refs(named, product_ref_col)
        refs_changed == count_changed(original_refs, cleaned_df, product_ref_col)
        keys == temp_key(cleaned_df, product_name_col, product_ref_col)
        keyed == assign_column(cleaned_df, TempKey, keys)
        duplicate_mask == duplicated_keep_false(keys)
        unique_df == unique_part(keyed, duplicate_mask)
        duplicate_df == duplicate_part(keyed, duplicate_mask)
    IN
    \* lines 88 and 90 read the two columns of unique_df
    IF product_name_col \notin Range(unique_df.columns)
    THEN {[status |-> "KeyError", column |-> product_name_col]}
    ELSE IF product_ref_col \notin Range(unique_df.columns)
    THEN {[status |-> "KeyError", column |-> product_ref_col]}
    ELSE
    LET head == CountWarning("names_changed", names_changed)
                \o CountWarning("refs_changed", refs_changed)
                \o CountWarning("empty_names", count_empty(unique_df, product_name_col))
                \o CountWarning("empty_refs", count_empty(unique_df, product_ref_col))
        sizes == group_sizes(duplicate_df, product_name_col, product_ref_col)
    IN  IF nrows(duplicate_df) > 0
        THEN {[status |-> "ok", unique_df |-> unique_df,
               duplicate_df |-> duplicate_df,
               warnings |-> head \o duplicate_warnings(sizes, top)]
                 : top \in top_duplicates(sizes)}
        ELSE {[status |-> "ok", unique_df |-> unique_df,
               duplicate_df |-> duplicate_df, warnings |-> head]}

\* ------------------------------------------------------------------------
\* State
\* ------------------------------------------------------------------------
\* The shell and the cleaner:
\*   df        the uploaded table, or NoFile
\*   name_col  the name column selected (the argument product_name_col)
\*   ref_col   the reference column selected (the argument product_ref_col)
\*   result    the outcome of the last call of clean_inventory_data, or None
\*   view      what the page shows
\* The normalizer on one value:
\*   kind      "name" or "ref"
\*   raw       the value given
\*   cleaned   the value cleaned once, or None
\*   recleaned the cleaned value cleaned again, or None
VARIABLES df, name_col, ref_col, result, view, kind, raw, cleaned, recleaned

tvars == <<df, name_col, ref_col, result, view>>

nvars == <<kind, raw, cleaned, recleaned>>

vars == <<df, name_col, ref_col, result, view, kind, raw, cleaned, recleaned>>

None == [t |-> "none"]

NoFile == [t |-> "nofile"]

Unselected == ""

NormIdle == kind = "idle" /\ raw = None /\ cleaned = None /\ recleaned = None

ShellIdle ==
    /\ df = NoFile
    /\ name_col = Unselected
    /\ ref_col = Unselected
    /\ result = None
    /\ view = [shown |-> "instructions"]

\* ------------------------------------------------------------------------
\* Input tables
\* ------------------------------------------------------------------------
RECURSIVE SeqsUpTo(_, _)
SeqsUpTo(S, n) ==
    IF n = 0 THEN {<<>>}
    ELSE LET P == SeqsUpTo(S, n - 1)
         IN  P \cup {Append(p, c) : p \in {q \in P : Len(q) = n - 1}, c \in S}

\* 'a', ' a', 'a|', NaN
NameCells == {StrCell(<<97>>), StrCell(<<32, 97>>), StrCell(<<97, 124>>), NanCell}

\* 'b', '|b'
RefCells == {StrCell(<<98>>), StrCell(<<124, 98>>)}

Schemas == {<<"designation", "reference", "quantite">>,
            <<"designation", "reference", "_temp_key">>}

\* a column name that no table has
ColumnNames == {"designation", "reference", "quantite", "_temp_key", "prix"}

\* the third column holds a number that differs from row to row
Row(name, ref, third, k) ==
    [c \in {"designation", "reference", third} |->
        IF c = "designation" THEN name
        ELSE IF c = "reference" THEN ref
        ELSE IntCell(10 * k)]

\* read_csv / read_excel give a RangeIndex 0..n-1
Tables ==
    {Frame(sch,
           [k \in 1..Len(rows) |-> k - 1],
           [k \in 1..Len(rows) |-> Row(rows[k][1], rows[k][2], sch[3], k)])
        : sch \in Schemas, rows \in SeqsUpTo(NameCells \X RefCells, MaxRows)}

\* ------------------------------------------------------------------------
\* main, lines 137-335: the shell
\* ------------------------------------------------------------------------
\* line 227-228: the rate shown with one decimal, in tenths of a percent
\* (round half to even)
duplicate_rate(duplicates, total) ==
    IF total > 0
    THEN LET q == (1000 * duplicates) \div total
             r == (1000 * duplicates) % total
         IN  IF 2 * r > total \/ (2 * r = total /\ q % 2 = 1) THEN q + 1 ELSE q
    ELSE 0

\* lines 209-228 and 306-307: what the page shows after a call
view_of(table, r) ==
    IF r.status = "ok"
    THEN [shown |-> "results",
          total |-> nrows(table),
          uniques |-> nrows(r.unique_df),
          duplicates |-> nrows(r.duplicate_df),
          rate |-> duplicate_rate(nrows(r.duplicate_df), nrows(table))]
    ELSE [shown |-> "error", error |-> r.status]

Init == ShellIdle /\ NormIdle

\* lines 150-183: a file is uploaded and read, the select boxes take their
\* defaults (first and second column)
Upload ==
    /\ df = NoFile
    /\ \E t \in Tables :
          /\ df' = t
          /\ name_col' = t.columns[1]
          /\ ref_col' = t.columns[IF Len(t.columns) > 1 THEN 2 ELSE 1]
    /\ result' = None
    /\ view' = [shown |-> "preview"]
    /\ UNCHANGED nvars

\* the file is removed from the uploader: lines 309-335
RemoveFile ==
    /\ df # NoFile
    /\ df' = NoFile
    /\ name_col' = Unselected
    /\ ref_col' = Unselected
    /\ result' = None
    /\ view' = [shown |-> "instructions"]
    /\ UNCHANGED nvars

\* lines 171-176; the rerun without the button shows no results.  The model
\* follows selections of two different columns.
SelectName(c) ==
    /\ df # NoFile
    /\ c \in Range(df.columns)
    /\ c # name_col
    /\ c # ref_col
    /\ name_col' = c
    /\ result' = None
    /\ view' = [shown |-> "preview"]
    /\ UNCHANGED <<df, ref_col>>
    /\ UNCHANGED nvars

\* lines 178-183
SelectRef(c) ==
    /\ df # NoFile
    /\ c \in Range(df.columns)
    /\ c # ref_col
    /\ c # name_col
    /\ ref_col' = c
    /\ result' = None
    /\ view' = [shown |-> "preview"]
    /\ UNCHANGED <<df, name_col>>
    /\ UNCHANGED nvars

\* lines 207-307: the button
ClickProcess ==
    /\ df # NoFile
    /\ \E r \in clean_inventory_data(df, name_col, ref_col) :
          /\ result' = r
          /\ view' = view_of(df, r)
    /\ UNCHANGED <<df, name_col, ref_col>>
    /\ UNCHANGED nvars

Next ==
    \/ Upload
    \/ RemoveFile
    \/ \E c \in ColumnNames : SelectName(c)
    \/ \E c \in ColumnNames : SelectRef(c)
    \/ ClickProcess

Spec == Init /\ [][Next]_vars

\* ------------------------------------------------------------------------
\* clean_inventory_data called on a table with any two column names
\* ------------------------------------------------------------------------
CallInit ==
    /\ df \in Tables
    /\ name_col = Unselected
    /\ ref_col = Unselected
    /\ result = None
    /\ view = [shown |-> "none"]
    /\ NormIdle

\* the function keeps no state between calls: one call per table is followed
CallClean(product_name_col, product_ref_col) ==
    /\ result = None
    /\ product_name_col # product_ref_col
    /\ name_col' = product_name_col
    /\ ref_col' = product_ref_col
    /\ result' \in clean_inventory_data(df, product_name_col, product_ref_col)
    /\ UNCHANGED <<df, view>>
    /\ UNCHANGED nvars

CallNext == \E pn, pr \in ColumnNames : CallClean(pn, pr)

SpecCall == CallInit /\ [][CallNext]_vars

\* ------------------------------------------------------------------------
\* The button pressed once on an uploaded table with many repeated pairs
\* ------------------------------------------------------------------------
\* ('a','1'), ('a','2'), ('b','1'), ('b','2'), ('c','1'), ('c','2')
ReportKeys == <<<<97, 49>>, <<97, 50>>, <<98, 49>>, <<98, 50>>, <<99, 49>>, <<99, 50>>>>

\* the rows of a table in which key k occurs counts[k] times: first one row of
\* every key that occurs, then a second row of every key that occurs twice, ...
RECURSIVE ReportRows(_, _, _)
ReportRows(counts, round, k) ==
    IF round > MaxCount THEN <<>>
    ELSE IF k > Len(ReportKeys) THEN ReportRows(counts, round + 1, 1)
    ELSE (IF counts[k] >= round THEN <<ReportKeys[k]>> ELSE <<>>)
         \o ReportRows(counts, round, k + 1)

ReportTables ==
    {LET rows == ReportRows(counts, 1, 1)
     IN  Frame(<<"designation", "reference", "quantite">>,
               [k \in 1..Len(rows) |-> k - 1],
               [k \in 1..Len(rows) |->
                   Row(StrCell(<<rows[k][1]>>), StrCell(<<rows[k][2]>>), "quantite", k)])
        : counts \in [1..Len(ReportKeys) -> 0..MaxCount]}

ReportInit ==
    /\ df \in ReportTables
    /\ name_col = df.columns[1]
    /\ ref_col = df.columns[2]
    /\ result = None
    /\ view = [shown |-> "preview"]
    /\ NormIdle

FirstClick == result = None /\ ClickProcess

SpecReport == ReportInit /\ [][FirstClick]_vars

\* ------------------------------------------------------------------------
\* The normalizer on one value: raw value, cleaned once, cleaned again
\* ------------------------------------------------------------------------
NormInputs == {StrCell(s) : s \in SeqsUpTo(NormAlphabet, MaxLen)} \cup {NanCell}

Clean(k, v) == IF k = "name" THEN clean_name(v) ELSE clean_ref(v)

NormInit ==
    /\ kind \in {"name", "ref"}
    /\ raw \in NormInputs
    /\ cleaned = None
    /\ recleaned = None
    /\ ShellIdle

Normalize ==
    /\ cleaned = None
    /\ cleaned' = StrCell(Clean(kind, raw))
    /\ UNCHANGED <<kind, raw, recleaned>>
    /\ UNCHANGED tvars

Renormalize ==
    /\ cleaned # None
    /\ recleaned = None
    /\ recleaned' = StrCell(Clean(kind, cleaned))
    /\ UNCHANGED <<kind, raw, cleaned>>
    /\ UNCHANGED tvars

NormNext == Normalize \/ Renormalize

SpecNorm == NormInit /\ [][NormNext]_vars

\* ------------------------------------------------------------------------
\* Properties of the cleaner and of the shell
\* ------------------------------------------------------------------------
Returned == result # None /\ result.status = "ok"

\* the rows returned, unique_df first: <<index label, (name, reference)>>
ReturnedPairs ==
    LET entry(f, k) == <<f.index[k], <<f.data[k][name_col].s, f.data[k][ref_col].s>>>>
    IN  {entry(result.unique_df, k) : k \in 1..nrows(result.unique_df)}
        \cup {entry(result.duplicate_df, k) : k \in 1..nrows(result.duplicate_df)}

\* C2: a row is in duplicate_df if and only if another row of the table has the
\* same (cleaned name, cleaned reference) pair; otherwise it is in unique_df.
C2_DuplicateIffSharedPair ==
    Returned =>
        \A x \in ReturnedPairs :
            (x[1] \in Range(result.duplicate_df.index))
                <=> (\E y \in ReturnedPairs : y[1] # x[1] /\ y[2] = x[2])

\* C3: every input row is in exactly one of unique_df and duplicate_df, and the
\* two lengths add up to the number of input rows.
C3_Partition ==
    Returned =>
        LET labels == result.unique_df.index \o result.duplicate_df.index
        IN  /\ Len(labels) = nrows(df)
            /\ \A i \in Range(df.index) :
                  Cardinality({k \in 1..Len(labels) : labels[k] = i}) = 1

C3_Witness ==
    /\ Returned
    /\ nrows(result.unique_df) > 0
    /\ nrows(result.duplicate_df) > 0

\* the position in df of the row with index label i
PositionOf(i) == CHOOSE k \in 1..nrows(df) : df.index[k] = i

\* C4: unique_df and duplicate_df have the columns of the input, and every
\* column other than the name and the reference column keeps its values,
\* whatever it is called.
C4_OtherColumnsUntouched ==
    Returned =>
        \A f \in {result.unique_df, result.duplicate_df} :
            /\ f.columns = df.columns
            /\ \A k \in 1..nrows(f) :
                  \A c \in Range(df.columns) \ {name_col, ref_col} :
                      f.data[k][c] = df.data[PositionOf(f.index[k])][c]

\* C7: in unique_df and in duplicate_df the rows are in the order of the input.
C7_StableOrder ==
    Returned =>
        \A f \in {result.unique_df, result.duplicate_df} :
            \A k \in 1..(nrows(f) - 1) :
                PositionOf(f.index[k]) < PositionOf(f.index[k + 1])

\* a unique row between two duplicates
C7_Witness ==
    /\ Returned
    /\ result.duplicate_df.index = <<0, 2>>
    /\ result.unique_df.index = <<1>>

\* C8: a call with a name or reference column that the table does not have
\* ends with the missing-column error for the first such column, returns
\* nothing else and leaves the table as it was.
C8_MissingColumn ==
    [][(/\ result' # result
        /\ result' # None
        /\ \/ name_col' \notin Range(df.columns)
           \/ ref_col' \notin Range(df.columns))
       => /\ df' = df
          /\ result' = [status |-> "ValueError",
                        column |-> IF name_col' \notin Range(df.columns)
                                   THEN name_col' ELSE ref_col']]_vars

\* the reference column is the missing one, on a table with rows
C8_Witness ==
    /\ result # None
    /\ result.status = "ValueError"
    /\ name_col \in Range(df.columns)
    /\ result.column = ref_col
    /\ nrows(df) > 0

\* C9: on a table without rows the cleaning ends without error, unique_df,
\* duplicate_df and the warnings are empty and the rate shown is 0.
C9_EmptyTable ==
    (df # NoFile /\ result # None /\ nrows(df) = 0) =>
        /\ result.status = "ok"
        /\ nrows(result.unique_df) = 0
        /\ nrows(result.duplicate_df) = 0
        /\ result.warnings = <<>>
        /\ view.shown = "results"
        /\ view.rate = 0

\* the (name, reference) pairs of duplicate_df and the number of rows of each
DuplicatePairs ==
    {x[2] : x \in {y \in ReturnedPairs : y[1] \in Range(result.duplicate_df.index)}}

RowsOfPair(g) ==
    Cardinality({y \in ReturnedPairs :
        y[1] \in Range(result.duplicate_df.index) /\ y[2] = g})

Min(a, b) == IF a < b THEN a ELSE b

\* C10: with duplicates, the warnings end with the number of distinct pairs of
\* duplicate_df, the heading and min(5, number of pairs) lines, each the exact
\* row count of a different pair, in non-increasing order of count, no pair
\* left out being larger than a pair listed; without duplicates there is no
\* such warning.
C10_TopDuplicates ==
    Returned =>
        LET W == result.warnings
            about == SelectSeq(W, LAMBDA m : m.w \in {"groups", "top5", "group"})
            G == DuplicatePairs
            n == Min(5, Cardinality(G))
            line(k) == about[2 + k]
        IN  IF nrows(result.duplicate_df) = 0 THEN about = <<>>
            ELSE /\ Len(about) = 2 + n
                 /\ SubSeq(W, Len(W) - Len(about) + 1, Len(W)) = about
                 /\ about[1] = [w |-> "groups", n |-> Cardinality(G)]
                 /\ about[2] = [w |-> "top5"]
                 /\ \A k \in 1..n :
                       /\ line(k).w = "group"
                       /\ <<line(k).name, line(k).ref>> \in G
                       /\ line(k).count = RowsOfPair(<<line(k).name, line(k).ref>>)
                 /\ \A j, k \in 1..n :
                       j < k => /\ line(j).count >= line(k).count
                                /\ <<line(j).name, line(j).ref>>
                                      # <<line(k).name, line(k).ref>>
                 /\ \A g \in G :
                       (\A k \in 1..n : g # <<line(k).name, line(k).ref>>)
                          => \A k \in 1..n : RowsOfPair(g) <= line(k).count

\* more than five pairs, of different sizes
C10_Witness ==
    /\ Returned
    /\ Cardinality(DuplicatePairs) > 5
    /\ LET about == SelectSeq(result.warnings, LAMBDA m : m.w = "group")
       IN  Len(about) = 5 /\ about[1].count > about[5].count

\* ------------------------------------------------------------------------
\* Properties of the normalizer
\* ------------------------------------------------------------------------
\* C1: cleaning is idempotent: cleaning an already-cleaned name or reference
\* gives the same value again.
C1_Idempotent == recleaned # None => recleaned = cleaned

\* An o or O of s at position i that the reference rules name: between two
\* digits, first and followed by a digit, or last and preceded by a digit.
NamedO(s, i) ==
    /\ IsLetterO(s[i])
    /\ \/ i > 1 /\ i < Len(s) /\ IsDigit(s[i - 1]) /\ IsDigit(s[i + 1])
       \/ i = 1 /\ Len(s) > 1 /\ IsDigit(s[2])
       \/ i = Len(s) /\ i > 1 /\ IsDigit(s[i - 1])

HasDigit(s) == \E i \in 1..Len(s) : s[i] \in 48..57

RefFixed(s, r) ==
    /\ Len(r) = Len(s)
    /\ \A i \in 1..Len(s) :
          r[i] = IF HasDigit(s) /\ NamedO(s, i) THEN 48 ELSE s[i]

\* C5: in a trimmed, control-stripped reference that has a digit, exactly the
\* o/O between two digits, leading before a digit or trailing after a digit
\* become '0'; a reference without a digit is unchanged.  '1o2' -> '102',
\* 'o45' -> '045', '45o' -> '450', 'abc' -> 'abc'.
C5_RefCorrection ==
    /\ (kind = "ref" /\ cleaned # None)
          => RefFixed(clean_ref_base(raw), cleaned.s)
    /\ clean_ref(StrCell(<<49, 111, 50>>)) = <<49, 48, 50>>
    /\ clean_ref(StrCell(<<111, 52, 53>>)) = <<48, 52, 53>>
    /\ clean_ref(StrCell(<<52, 53, 111>>)) = <<52, 53, 48>>
    /\ clean_ref(StrCell(<<97, 98, 99>>)) = <<97, 98, 99>>

\* A reference in which one o was corrected and another o was kept
C5_Witness ==
    /\ kind = "ref"
    /\ cleaned # None
    /\ LET s == clean_ref_base(raw)
       IN  \E i, j \in 1..Len(s) :
              /\ IsLetterO(s[i]) /\ cleaned.s[i] = 48
              /\ IsLetterO(s[j]) /\ cleaned.s[j] = s[j]

\* C6: a cleaned name has no leading or trailing whitespace, no run of two
\* whitespace characters and no control character; '  Foo   Bar\x01'
\* becomes 'Foo Bar'.
NameWellFormed(s) ==
    /\ s # <<>> => ~IsSpace(s[1]) /\ ~IsSpace(s[Len(s)])
    /\ \A i \in 1..(Len(s) - 1) : ~(IsSpace(s[i]) /\ IsSpace(s[i + 1]))
    /\ \A i \in 1..Len(s) : ~IsControl(s[i])

C6_NameWellFormed ==
    /\ (kind = "name" /\ cleaned # None) => NameWellFormed(cleaned.s)
    /\ clean_name(StrCell(<<32, 32, 70, 111, 111, 32, 32, 32, 66, 97, 114, 1>>))
          = <<70, 111, 111, 32, 66, 97, 114>>

====
